---- MODULE Spec2Model ----
(***************************************************************************)
(* The BMP codec of mage: src/src/bmp.rs (parse_image, write_image and     *)
(* their helpers) over the pixel buffer of src/src/image.rs.               *)
(*                                                                         *)
(* Number representation.  A u32 is the record [hi, lo] of its two 16-bit  *)
(* halves (value = hi * 65536 + lo), because values up to 2^32 - 1 (the    *)
(* colour masks, a height of 2^31) do not fit the model checker's          *)
(* integers; an i32 is an ordinary integer in -2^31 .. 2^31 - 1.  A usize  *)
(* is 64 bits wide (a 64-bit target) and holds every u32.                  *)
(***************************************************************************)
EXTENDS Integers, Sequences, FiniteSets, TLC

VARIABLES image, file, header, result, pc, edits, writes

vars == <<image, file, header, result, pc, edits, writes>>

(***************************************************************************)
(* Bounds of the model.                                                    *)
(***************************************************************************)
\* Largest width and height of an image handed to the encoder.
MaxDim == 2
\* How many fields of an encoded file the environment alters or cuts.
MaxEdits == 2
\* How many pixels are painted into a fresh image before it is encoded.
MaxWrites == 2
\* Pixels of the largest buffer the modelled machine can allocate.
MemPixels == 16

(***************************************************************************)
(* Integers of fixed width                                                 *)
(***************************************************************************)
Byte == 0..255

U32(hi, lo) == [hi |-> hi, lo |-> lo]

\* `n as u32` for an integer n in -2^31 .. 2^31 - 1 (two's complement).
AsU32(n) == U32((n \div 65536) % 65536, n % 65536)

\* `u as i32`: the same 32 bits read as a signed number.
AsI32(u) == IF u.hi >= 32768 THEN (u.hi - 65536) * 65536 + u.lo
                             ELSE u.hi * 65536 + u.lo

\* The value of a u32 below 2^31 as an integer.
Val(u) == u.hi * 65536 + u.lo

\* n < (u as usize), for an integer n >= 0.
LtU32(n, u) == IF u.hi >= 32768 THEN TRUE ELSE n < Val(u)

I32_MIN == (-32768) * 65536

\* &data[k..]
Slice(data, k) == SubSeq(data, k + 1, Len(data))

(***************************************************************************)
(* Primitive codec: little-endian reads and writes (bmp.rs 11-43).  A      *)
(* writer is the sequence of bytes written so far; the sink never fails.   *)
(***************************************************************************)
u32_le(data) == U32(data[3] + data[4] * 256, data[1] + data[2] * 256)

write_u32_le(writer, num) ==
    writer \o << num.lo % 256, num.lo \div 256, num.hi % 256, num.hi \div 256 >>

write_i32_le(writer, num) ==
    writer \o << num % 256, (num \div 256) % 256,
                 (num \div 65536) % 256, (num \div 16777216) % 256 >>

u16_le(data) == data[1] + data[2] * 256

write_u16_le(writer, num) == writer \o << num % 256, (num \div 256) % 256 >>

(***************************************************************************)
(* Results                                                                 *)
(***************************************************************************)
invalid_format(s) == [tag |-> "InvalidFormat", msg |-> s]

unsupported_format(s) == [tag |-> "UnsupportedFormat", msg |-> s]

\* A panic of the running program: an index out of range, or an
\* arithmetic overflow in a build with overflow checks.
Panic(kind) == [tag |-> "Panic", kind |-> kind]

\* The allocator could not serve the request and the process aborts.
AllocFailure == [tag |-> "Abort", kind |-> "alloc"]

(***************************************************************************)
(* CompressionType and ColorFormat (bmp.rs 103-184)                        *)
(***************************************************************************)
CompressionType_into_u32(compression) ==
    CASE compression = "Uncompressed" -> U32(0, 0)
      [] compression = "RLE8"         -> U32(0, 1)
      [] compression = "RLE4"         -> U32(0, 2)
      [] compression = "Bitfields"    -> U32(0, 3)
      [] compression = "Unknown"      -> U32(0, 69)

CompressionType_from_u32(num) ==
    CASE num = U32(0, 0) -> "Uncompressed"
      [] num = U32(0, 1) -> "RLE8"
      [] num = U32(0, 2) -> "RLE4"
      [] num = U32(0, 3) -> "Bitfields"
      [] OTHER           -> "Unknown"

\* From<ColorFormat> for ColorMasks: 0xFF000000, 0x00FF0000, 0x0000FF00, 0x000000FF
ColorMasks_from(format) ==
    CASE format = "RGBA" ->
        [r |-> U32(65280, 0), g |-> U32(255, 0), b |-> U32(0, 65280), a |-> U32(0, 255)]

formats == << "RGBA" >>

\* ColorFormat_try_from with a comparison of masks that leaves the green
\* mask out.
ColorFormat_try_from_IgnoresGreen(mask) ==
    IF \E k \in 1..Len(formats) :
          /\ mask.r = ColorMasks_from(formats[k]).r
          /\ mask.b = ColorMasks_from(formats[k]).b
          /\ mask.a = ColorMasks_from(formats[k]).a
    THEN [tag |-> "Ok", format |-> "RGBA"]
    ELSE unsupported_format("Unknown color format")

ColorFormat_try_from(mask) ==
    IF \E k \in 1..Len(formats) : mask = ColorMasks_from(formats[k])
    THEN [tag |-> "Ok",
          format |-> formats[CHOOSE k \in 1..Len(formats) :
                                 /\ mask = ColorMasks_from(formats[k])
                                 /\ \A j \in 1..(k - 1) : mask # ColorMasks_from(formats[j])]]
    ELSE unsupported_format("Unknown color format")

(***************************************************************************)
(* The pixel buffer (image.rs).  data holds 4 bytes per pixel, row-major.  *)
(***************************************************************************)
RGBA_BYTES == 4

RGBA_new(r, g, b, a) == [r |-> r, g |-> g, b |-> b, a |-> a]

Zeros(n) == [k \in 1..n |-> 0]

\* Whether the machine can hold a width x height buffer.  A buffer with no
\* pixel needs no memory.
Allocates(width, height) ==
    \/ width = U32(0, 0)
    \/ height = U32(0, 0)
    \/ /\ width.hi = 0 /\ height.hi = 0
       /\ width.lo <= MemPixels /\ height.lo <= MemPixels
       /\ width.lo * height.lo <= MemPixels

\* Image::new, where Allocates(width, height): vec![0; 4 * width * height].
Image_new(width, height) ==
    [data      |-> IF width = U32(0, 0) \/ height = U32(0, 0)
                   THEN << >>
                   ELSE Zeros(RGBA_BYTES * width.lo * height.lo),
     row_width |-> width,
     width     |-> width,
     height    |-> height]

Image_in_bounds(img, x, y) == LtU32(x, img.width) /\ LtU32(y, img.height)

\* RGBA_BYTES * (row_width * y + x), the index both read and write use.  A
\* buffer whose row_width is 65536 or more holds no byte (see Allocates), so
\* the index matters only for a narrower one.
PixelIndex(img, x, y) == RGBA_BYTES * (img.row_width.lo * y + x)

\* Whether data[i] .. data[i + 3] are inside the buffer.
IndexInRange(img, x, y) ==
    /\ img.row_width.hi = 0
    /\ PixelIndex(img, x, y) + 3 < Len(img.data)

\* Image::read, where IndexInRange(img, x, y); a panic otherwise.
Image_read(img, x, y) ==
    LET i == PixelIndex(img, x, y) IN
    RGBA_new(img.data[i + 1], img.data[i + 2], img.data[i + 3], img.data[i + 4])

\* Image::write, where IndexInRange(img, x, y); a panic otherwise.
Image_write(img, x, y, pixel) ==
    LET i == PixelIndex(img, x, y) IN
    [img EXCEPT !.data = [k \in 1..Len(img.data) |->
        CASE k = i + 1 -> pixel.r
          [] k = i + 2 -> pixel.g
          [] k = i + 3 -> pixel.b
          [] k = i + 4 -> pixel.a
          [] OTHER     -> img.data[k]]]

\* ImageIterator::next with the end test off by one: the last pixel is
\* never yielded.
ImageIterator_next_DropsLast(img, index) ==
    LET next_index == index + 4 IN
    IF next_index >= Len(img.data)
    THEN [some |-> FALSE]
    ELSE [some  |-> TRUE,
          item  |-> RGBA_new(img.data[index + 1], img.data[index + 2],
                             img.data[index + 3], img.data[index + 4]),
          index |-> index + 4]

\* ImageIterator::next at position index: None, or the pixel and the new index.
ImageIterator_next(img, index) ==
    LET next_index == index + 4 IN
    IF next_index > Len(img.data)
    THEN [some |-> FALSE]
    ELSE [some  |-> TRUE,
          item  |-> RGBA_new(img.data[index + 1], img.data[index + 2],
                             img.data[index + 3], img.data[index + 4]),
          index |-> index + 4]

(***************************************************************************)
(* Header parser (bmp.rs 195-272)                                          *)
(***************************************************************************)
parse_file_header(data) ==
    IF Len(data) < 14
    THEN invalid_format("insufficient file header length")
    ELSE IF data[1] # 66 \/ data[2] # 77
    THEN invalid_format("header didn't start with 'BM'")
    ELSE IF data[7] # 0 \/ data[8] # 0 \/ data[9] # 0 \/ data[10] # 0
    THEN invalid_format("reserved bytes not 0")
    ELSE [tag    |-> "Ok",
          size   |-> u32_le(Slice(data, 2)),
          offset |-> u32_le(Slice(data, 10))]

parse_image_header(data) ==
    IF Len(data) < 40
    THEN invalid_format("insufficient image header length")
    ELSE IF data[13] # 1 \/ data[14] # 0
    THEN invalid_format("plane count not 1")
    ELSE [tag                |-> "Ok",
          size               |-> u32_le(data),
          width              |-> u32_le(Slice(data, 4)),
          height             |-> AsI32(u32_le(Slice(data, 8))),
          bit_count          |-> u16_le(Slice(data, 14)),
          compression        |-> CompressionType_from_u32(u32_le(Slice(data, 16))),
          image_bytes        |-> u32_le(Slice(data, 20)),
          x_pixels_per_meter |-> u32_le(Slice(data, 24)),
          y_pixels_per_meter |-> u32_le(Slice(data, 28)),
          color_used         |-> u32_le(Slice(data, 32)),
          color_important    |-> u32_le(Slice(data, 36))]

parse_color_format(data) ==
    IF Len(data) < 16
    THEN invalid_format("insufficient color mask length")
    ELSE ColorFormat_try_from([r |-> u32_le(data),
                               g |-> u32_le(Slice(data, 4)),
                               b |-> u32_le(Slice(data, 8)),
                               a |-> u32_le(Slice(data, 12))])

\* parse_header with the image header parsed before the buffer length is
\* compared with the pixel-data offset.
parse_header_OffsetCheckLate(data) ==
    LET file_header == parse_file_header(data) IN
    IF file_header.tag # "Ok" THEN file_header
    ELSE LET image_header == parse_image_header(Slice(data, 14)) IN
    IF image_header.tag # "Ok" THEN image_header
    ELSE IF LtU32(Len(data), file_header.offset)
    THEN invalid_format("insufficient header length")
    ELSE IF image_header.compression # "Bitfields"
    THEN unsupported_format("compression type not supported")
    ELSE IF image_header.bit_count # 32
    THEN unsupported_format("unspported pixel format")
    ELSE LET format == parse_color_format(Slice(data, 54)) IN
    IF format.tag # "Ok" THEN format
    ELSE [tag          |-> "Ok",
          file_header  |-> file_header,
          image_header |-> image_header,
          format       |-> format.format]

\* The slices &data[14..] and &data[54..] panic when the buffer is shorter
\* than their start.
parse_header(data) ==
    LET file_header == parse_file_header(data) IN
    IF file_header.tag # "Ok" THEN file_header
    ELSE IF LtU32(Len(data), file_header.offset)
    THEN invalid_format("insufficient header length")
    ELSE IF Len(data) < 14 THEN Panic("index")
    ELSE LET image_header == parse_image_header(Slice(data, 14)) IN
    IF image_header.tag # "Ok" THEN image_header
    ELSE IF image_header.compression # "Bitfields"
    THEN unsupported_format("compression type not supported")
    ELSE IF image_header.bit_count # 32
    THEN unsupported_format("unspported pixel format")
    ELSE IF Len(data) < 54 THEN Panic("index")
    ELSE LET format == parse_color_format(Slice(data, 54)) IN
    IF format.tag # "Ok" THEN format
    ELSE [tag          |-> "Ok",
          file_header  |-> file_header,
          image_header |-> image_header,
          format       |-> format.format]

(***************************************************************************)
(* Pixel decoder (bmp.rs 274-303)                                          *)
(***************************************************************************)
\* The two build profiles: "debug" checks arithmetic overflow and panics,
\* "release" wraps.
Builds == {"debug", "release"}

\* i32::abs: the absolute value of i32::MIN is not an i32.
i32_abs(n, build) ==
    IF n = I32_MIN
    THEN IF build = "debug" THEN Panic("overflow") ELSE [tag |-> "Ok", value |-> n]
    ELSE [tag |-> "Ok", value |-> IF n < 0 THEN -n ELSE n]

\* The while loop of parse_image from the state (img, i, x, y): the four
\* reads image_data[i] .. image_data[i + 3], Image::write and the advance of
\* (x, y), until i reaches image_bytes.
RECURSIVE parse_pixels(_, _, _, _, _, _)
parse_pixels(image_data, image_bytes, img, i, x, y) ==
    IF ~LtU32(i, image_bytes)
    THEN [tag |-> "Ok", image |-> img, consumed |-> i]
    ELSE IF i + 3 >= Len(image_data) THEN Panic("index")
    ELSE IF ~IndexInRange(img, x, y) THEN Panic("index")
    ELSE LET color == RGBA_new(image_data[i + 1], image_data[i + 2],
                               image_data[i + 3], image_data[i + 4])
             written == Image_write(img, x, y, color)
         IN IF ~LtU32(x + 1, img.width)
            THEN parse_pixels(image_data, image_bytes, written, i + 4, 0, y + 1)
            ELSE parse_pixels(image_data, image_bytes, written, i + 4, x + 1, y)

\* parse_image once parse_header has returned hdr.
parse_image_body(data, hdr, build) ==
    IF hdr.tag # "Ok" THEN hdr
    ELSE IF LtU32(Len(data), hdr.file_header.size)
    THEN invalid_format("insufficient image data")
    ELSE LET abs == i32_abs(hdr.image_header.height, build) IN
    IF abs.tag # "Ok" THEN abs
    ELSE LET height == AsU32(abs.value)
             width == hdr.image_header.width
         IN
    IF LtU32(Len(data), hdr.file_header.offset) THEN Panic("index")
    ELSE IF ~Allocates(width, height) THEN AllocFailure
    ELSE parse_pixels(Slice(data, Val(hdr.file_header.offset)),
                      hdr.image_header.image_bytes,
                      Image_new(width, height), 0, 0, 0)

parse_image(data, build) == parse_image_body(data, parse_header(data), build)

(***************************************************************************)
(* Pixel encoder (bmp.rs 305-361)                                          *)
(***************************************************************************)
\* write_file_header with the offset written before the size.
write_file_header_OffsetFirst(writer, hdr) ==
    LET w1 == writer \o << 66, 77 >>
        w2 == write_u32_le(w1, hdr.offset)
        w3 == w2 \o << 0, 0, 0, 0 >>
    IN write_u32_le(w3, hdr.size)

write_file_header(writer, hdr) ==
    LET w1 == writer \o << 66, 77 >>
        w2 == write_u32_le(w1, hdr.size)
        w3 == w2 \o << 0, 0, 0, 0 >>
    IN write_u32_le(w3, hdr.offset)

write_image_header(writer, hdr) ==
    LET w1  == write_u32_le(writer, hdr.size)
        w2  == write_u32_le(w1, hdr.width)
        w3  == write_i32_le(w2, hdr.height)
        w4  == w3 \o << 1, 0 >>
        w5  == write_u16_le(w4, hdr.bit_count)
        w6  == write_u32_le(w5, CompressionType_into_u32(hdr.compression))
        w7  == write_u32_le(w6, hdr.image_bytes)
        w8  == write_u32_le(w7, hdr.x_pixels_per_meter)
        w9  == write_u32_le(w8, hdr.y_pixels_per_meter)
        w10 == write_u32_le(w9, hdr.color_used)
    IN write_u32_le(w10, hdr.color_important)

\* 0x57696E20 is U32(22377, 28192).
write_format(writer, format) ==
    LET mask == ColorMasks_from(format)
        w1 == write_u32_le(writer, mask.r)
        w2 == write_u32_le(w1, mask.g)
        w3 == write_u32_le(w2, mask.b)
        w4 == write_u32_le(w3, mask.a)
        w5 == write_u32_le(w4, U32(22377, 28192))
    IN w5 \o Zeros(48)

\* The pixel loop of write_image writing each pixel as r, g, b, a, the
\* order parse_image reads.
RECURSIVE write_pixels_RGBA(_, _, _)
write_pixels_RGBA(writer, img, index) ==
    LET nx == ImageIterator_next(img, index) IN
    IF ~nx.some THEN writer
    ELSE write_pixels_RGBA(writer \o << nx.item.r, nx.item.g, nx.item.b, nx.item.a >>,
                           img, nx.index)

\* `for pixel in image { writer.write_all(&[pixel.a, pixel.b, pixel.g, pixel.r]) }`
\* from the iterator's position index.
RECURSIVE write_pixels(_, _, _)
write_pixels(writer, img, index) ==
    LET nx == ImageIterator_next(img, index) IN
    IF ~nx.some THEN writer
    ELSE write_pixels(writer \o << nx.item.a, nx.item.b, nx.item.g, nx.item.r >>,
                      img, nx.index)

\* The images of the model are small, so that none of the u32 products
\* below overflows.
write_image(writer, img) ==
    LET pixel_count == Val(img.width) * Val(img.height)
        file_header == [size   |-> AsU32(122 + RGBA_BYTES * pixel_count),
                        offset |-> U32(0, 122)]
        image_header ==
            [size               |-> U32(0, 108),
             width              |-> img.width,
             height             |-> -AsI32(img.height),
             bit_count          |-> 32,
             compression        |-> "Bitfields",
             image_bytes        |-> AsU32(Val(img.width) * Val(img.height) * 4),
             x_pixels_per_meter |-> U32(0, 2835),
             y_pixels_per_meter |-> U32(0, 2835),
             color_used         |-> U32(0, 0),
             color_important    |-> U32(0, 0)]
        w1 == write_file_header(writer, file_header)
        w2 == write_image_header(w1, image_header)
        w3 == write_format(w2, "RGBA")
    IN write_pixels(w3, img, 0)

(***************************************************************************)
(* The command line (cli.rs): `convert` builds an image and encodes it,    *)
(* `show` reads a file, whatever it holds, and decodes it.                 *)
(***************************************************************************)
\* The loops of make_image over a w x h image: pixel (x, y) becomes
\* (0xFF, x, y, 0xFF).  Pixels are visited in the order x outer, y inner.
RECURSIVE make_image_loop(_, _, _)
make_image_loop(img, x, y) ==
    IF ~LtU32(x, img.width) THEN img
    ELSE IF ~LtU32(y, img.height) THEN make_image_loop(img, x + 1, 0)
    ELSE make_image_loop(Image_write(img, x, y, RGBA_new(255, x % 256, y % 256, 255)),
                         x, y + 1)

\* make_image, for an image of w x h pixels instead of 255 x 200.
make_image(w, h) == make_image_loop(Image_new(AsU32(w), AsU32(h)), 0, 0)

\* The colours painted into an image before it is encoded.
Colours == { RGBA_new(1, 2, 3, 4), RGBA_new(255, 0, 128, 255), RGBA_new(7, 9, 9, 7) }

\* What the environment may do to a file before `show` reads it: overwrite
\* the bytes from position pos (0-based) on, or cut the file at a length.
Overwrite(data, pos, bytes) ==
    [k \in 1..Len(data) |->
        IF k > pos /\ k <= pos + Len(bytes) THEN bytes[k - pos] ELSE data[k]]

\* The field values the environment writes: <<position, bytes>>.
FieldEdits ==
    { << 0, << 0 >> >>,                                \* signature
      << 2, write_u32_le(<< >>, U32(0, 0)) >>,         \* file size
      << 2, write_u32_le(<< >>, U32(1, 0)) >>,
      << 6, << 1 >> >>,                                \* reserved
      << 10, write_u32_le(<< >>, U32(0, 118)) >>,      \* pixel-data offset
      << 10, write_u32_le(<< >>, U32(1, 0)) >>,
      << 14, write_u32_le(<< >>, U32(0, 40)) >>,       \* header size
      << 26, << 2 >> >>,                               \* planes
      << 28, write_u16_le(<< >>, 24) >>,               \* bit count
      << 30, write_u32_le(<< >>, U32(0, 0)) >>,        \* compression
      << 30, write_u32_le(<< >>, U32(0, 69)) >>,
      << 34, write_u32_le(<< >>, U32(0, 5)) >>,        \* image bytes
      << 54, write_u32_le(<< >>, U32(255, 0)) >>,      \* red mask := green mask
      << 58, write_u32_le(<< >>, U32(65280, 0)) >> }   \* green mask := red mask
    \cup { << 18, write_u32_le(<< >>, AsU32(w)) >> : w \in 0..MaxDim }
    \cup { << 22, write_i32_le(<< >>, h) >> : h \in (0..MaxDim) \cup {I32_MIN} }
    \cup { << 34, write_u32_le(<< >>, AsU32(4 * n)) >> : n \in 0..MaxDim }

\* The lengths a file is cut at: around each boundary the parser tests.
CutLengths == { 0, 13, 14, 53, 54, 69, 70, 121 }

Init ==
    /\ \E w \in 0..MaxDim, h \in 0..MaxDim : image = make_image(w, h)
    /\ file = << >>
    /\ header = [tag |-> "None"]
    /\ result = [tag |-> "None"]
    /\ pc = "image"
    /\ edits = 0
    /\ writes = 0

\* Image::write by the program that fills the image (in bounds, as make_image).
ImageWrite ==
    /\ pc = "image"
    /\ writes < MaxWrites
    /\ \E x \in 0..(MaxDim - 1), y \in 0..(MaxDim - 1), c \in Colours :
          /\ Image_in_bounds(image, x, y)
          /\ image' = Image_write(image, x, y, c)
    /\ writes' = writes + 1
    /\ UNCHANGED <<file, header, result, pc, edits>>

\* `convert`: write_image into an empty file.
WriteImage ==
    /\ pc = "image"
    /\ file' = write_image(<< >>, image)
    /\ pc' = "file"
    /\ UNCHANGED <<image, header, result, edits, writes>>

EditField ==
    /\ pc = "file"
    /\ edits < MaxEdits
    /\ \E e \in FieldEdits :
          /\ e[1] + Len(e[2]) <= Len(file)
          /\ file' = Overwrite(file, e[1], e[2])
    /\ edits' = edits + 1
    /\ UNCHANGED <<image, header, result, pc, writes>>

CutFile ==
    /\ pc = "file"
    /\ edits < MaxEdits
    /\ \E n \in CutLengths \cup {Len(file) - 1} :
          /\ 0 <= n /\ n < Len(file)
          /\ file' = SubSeq(file, 1, n)
    /\ edits' = edits + 1
    /\ UNCHANGED <<image, header, result, pc, writes>>

\* `show`: parse_image on the bytes of the file, in either build.
ParseImage ==
    /\ pc = "file"
    /\ header' = parse_header(file)
    /\ \E build \in Builds : result' = parse_image_body(file, header', build)
    /\ pc' = "parsed"
    /\ UNCHANGED <<image, file, edits, writes>>

\* The decoder on the files `convert` writes and the environment alters.
Next == WriteImage \/ EditField \/ CutFile \/ ParseImage

Spec == Init /\ [][Next]_vars

\* The codec on painted images: paint, encode, decode.
InitCodec ==
    /\ \E w \in 0..MaxDim, h \in 0..MaxDim : image = Image_new(AsU32(w), AsU32(h))
    /\ file = << >>
    /\ header = [tag |-> "None"]
    /\ result = [tag |-> "None"]
    /\ pc = "image"
    /\ edits = 0
    /\ writes = 0

\* write_image on the image a first parse_image returned.
WriteAgain ==
    /\ pc = "parsed"
    /\ edits = 0
    /\ result.tag = "Ok"
    /\ file' = write_image(<< >>, result.image)
    /\ pc' = "refile"
    /\ UNCHANGED <<image, header, result, edits, writes>>

\* parse_image on the bytes of the second file, in either build.
ParseAgain ==
    /\ pc = "refile"
    /\ header' = parse_header(file)
    /\ \E build \in Builds : result' = parse_image_body(file, header', build)
    /\ pc' = "reparsed"
    /\ UNCHANGED <<image, file, edits, writes>>

NextCodec == ImageWrite \/ WriteImage \/ ParseImage \/ WriteAgain \/ ParseAgain

SpecCodec == InitCodec /\ [][NextCodec]_vars

(***************************************************************************)
(* Properties.  The helpers below read a file's fields straight from its   *)
(* bytes, independently of the parser.                                     *)
(***************************************************************************)
\* The n bytes of data from 0-based offset off.
Bytes(data, off, n) == SubSeq(data, off + 1, off + n)

\* The little-endian 32-bit encoding of an integer in -2^31 .. 2^31 - 1.
LE32(n) == << n % 256, (n \div 256) % 256, (n \div 65536) % 256, (n \div 16777216) % 256 >>

\* The unsigned 32-bit field at offset off, capped at 2^31 - 1 (more than
\* any length or size of the model).
FieldVal(data, off) ==
    IF data[off + 4] >= 128 THEN 2147483647
    ELSE data[off + 1] + data[off + 2] * 256 + data[off + 3] * 65536
         + data[off + 4] * 16777216

\* The signed 32-bit field at offset off.
SignedFieldVal(data, off) ==
    data[off + 1] + data[off + 2] * 256 + data[off + 3] * 65536
    + (IF data[off + 4] >= 128 THEN data[off + 4] - 256 ELSE data[off + 4]) * 16777216

\* The bytes of the four masks 0xFF000000, 0x00FF0000, 0x0000FF00, 0x000000FF.
RGBAMaskBytes == << 0, 0, 0, 255,  0, 0, 255, 0,  0, 255, 0, 0,  255, 0, 0, 0 >>

\* The first structural check (1) .. (6) that data fails, 0 when it passes all.
FirstFailedCheck(data) ==
    IF Len(data) < 14 THEN 1
    ELSE IF Bytes(data, 0, 2) # << 66, 77 >> THEN 2
    ELSE IF Bytes(data, 6, 4) # << 0, 0, 0, 0 >> THEN 3
    ELSE IF Len(data) < FieldVal(data, 10) THEN 4
    ELSE IF Len(data) - 14 < 40 THEN 5
    ELSE IF Bytes(data, 26, 2) # << 1, 0 >> THEN 6
    ELSE 0

CheckMessage(k) ==
    CASE k = 1 -> "insufficient file header length"
      [] k = 2 -> "header didn't start with 'BM'"
      [] k = 3 -> "reserved bytes not 0"
      [] k = 4 -> "insufficient header length"
      [] k = 5 -> "insufficient image header length"
      [] k = 6 -> "plane count not 1"

\* The width and height of an image of the model, as integers.
W == Val(image.width)
H == Val(image.height)

\* C1: round trip.  Decoding the bytes write_image emits for an image
\* succeeds and yields an image of the same width and height with the same
\* (r, g, b, a) at every coordinate.
C1_RoundTrip ==
    (pc = "parsed" /\ edits = 0) =>
        /\ result.tag = "Ok"
        /\ result.image.width = image.width
        /\ result.image.height = image.height
        /\ \A x \in 0..(W - 1), y \in 0..(H - 1) :
              Image_read(result.image, x, y) = Image_read(image, x, y)

\* C2: parse_image is total.  On every buffer it returns Ok or a BMPError
\* and never stops with an out-of-range index or an arithmetic fault.  (A
\* machine without the memory for the buffer is not held against it.)
C2_ParseImageTotal ==
    pc = "parsed" =>
        /\ result.tag \in {"Ok", "InvalidFormat", "UnsupportedFormat", "Abort"}
        /\ result.tag # "Panic"

\* C3: the structural checks are applied in the order (1) .. (6) and the
\* first one that fails decides the result, InvalidFormat, whatever the later
\* fields hold; once the header is accepted, a buffer shorter than the
\* declared file size is InvalidFormat too.
C3_ChecksInOrder ==
    pc = "parsed" =>
        /\ FirstFailedCheck(file) # 0 =>
              /\ header = invalid_format(CheckMessage(FirstFailedCheck(file)))
              /\ result = header
        /\ (header.tag = "Ok" /\ Len(file) < FieldVal(file, 2)) =>
              result = invalid_format("insufficient image data")

\* C3 witness: the reserved bytes are not zero and the plane count, a later
\* field, is wrong as well; the reserved bytes decide.
C3_Witness ==
    /\ pc = "parsed"
    /\ FirstFailedCheck(file) = 3
    /\ Len(file) >= 54 /\ Bytes(file, 26, 2) # << 1, 0 >>
    /\ result = invalid_format("reserved bytes not 0")

\* C4: for an input that passes the structural checks and has 16 bytes from
\* byte 54, parse_header returns Ok with RGBA exactly when the compression
\* code is 3, the bit count is 32 and the masks are the RGBA masks in the
\* order r, g, b, a; otherwise it returns UnsupportedFormat.
C4_SupportedIffRGBA ==
    (pc = "parsed" /\ FirstFailedCheck(file) = 0 /\ Len(file) >= 70) =>
        IF /\ Bytes(file, 30, 4) = << 3, 0, 0, 0 >>
           /\ Bytes(file, 28, 2) = << 32, 0 >>
           /\ Bytes(file, 54, 16) = RGBAMaskBytes
        THEN header.tag = "Ok" /\ header.format = "RGBA"
        ELSE header.tag = "UnsupportedFormat"

\* C4 witness: the red and green masks are swapped and the header is
\* refused as unsupported.
C4_Witness ==
    /\ pc = "parsed"
    /\ FirstFailedCheck(file) = 0 /\ Len(file) >= 70
    /\ Bytes(file, 30, 4) = << 3, 0, 0, 0 >> /\ Bytes(file, 28, 2) = << 32, 0 >>
    /\ Bytes(file, 54, 8) = << 0, 0, 255, 0,  0, 0, 0, 255 >>
    /\ Bytes(file, 62, 8) = << 0, 255, 0, 0,  255, 0, 0, 0 >>
    /\ header.tag = "UnsupportedFormat"

\* C5: write_image emits exactly 122 + 4wh bytes, with the fixed header
\* 'B','M', size 122 + 4wh, reserved 0, offset 122, header size 108, width w,
\* height -h, planes 1, bit count 32, compression 3, image bytes 4wh, both
\* resolutions 2835, both colour counts 0, the RGBA masks, a 4-byte
\* colour-space id and 48 zero bytes.
C5_EncodedHeader ==
    (pc = "file" /\ edits = 0) =>
        /\ Len(file) = 122 + 4 * W * H
        /\ Bytes(file, 0, 2) = << 66, 77 >>
        /\ Bytes(file, 2, 4) = LE32(122 + 4 * W * H)
        /\ Bytes(file, 6, 4) = << 0, 0, 0, 0 >>
        /\ Bytes(file, 10, 4) = LE32(122)
        /\ Bytes(file, 14, 4) = LE32(108)
        /\ Bytes(file, 18, 4) = LE32(W)
        /\ Bytes(file, 22, 4) = LE32(-H)
        /\ Bytes(file, 26, 2) = << 1, 0 >>
        /\ Bytes(file, 28, 2) = << 32, 0 >>
        /\ Bytes(file, 30, 4) = LE32(3)
        /\ Bytes(file, 34, 4) = LE32(4 * W * H)
        /\ Bytes(file, 38, 4) = LE32(2835)
        /\ Bytes(file, 42, 4) = LE32(2835)
        /\ Bytes(file, 46, 4) = LE32(0)
        /\ Bytes(file, 50, 4) = LE32(0)
        /\ Bytes(file, 54, 16) = RGBAMaskBytes
        /\ \A k \in 71..74 : file[k] \in Byte
        /\ \A k \in 75..122 : file[k] = 0

\* C5 witness: a painted 2 x 2 image is encoded into 138 bytes.
C5_Witness ==
    /\ pc = "file" /\ edits = 0 /\ writes > 0
    /\ W = 2 /\ H = 2
    /\ Len(file) = 138

\* C6: when the header is accepted and the width field or the height field
\* is 0, parse_image returns a pixel buffer with no pixel and indexes nothing
\* out of range, whatever image_bytes is.
C6_EmptyBoundary ==
    (/\ pc = "parsed"
     /\ FirstFailedCheck(file) = 0 /\ header.tag = "Ok"
     /\ Len(file) >= FieldVal(file, 2)
     /\ (FieldVal(file, 18) = 0 \/ SignedFieldVal(file, 22) = 0)) =>
        /\ result.tag = "Ok"
        /\ Len(result.image.data) = 0

\* C7: every FileHeader of a successful parse has offset <= size.
C7_OffsetWithinSize ==
    (pc = "parsed" /\ header.tag = "Ok") =>
        /\ FieldVal(file, 10) <= FieldVal(file, 2)
        /\ Val(header.file_header.offset) <= FieldVal(file, 2)

\* C8: parse_header returns Ok only when the header-size field (bytes
\* 14-17) holds the one value the codec supports, the value write_image
\* emits there.
C8_HeaderSizeSymmetric ==
    (pc = "parsed" /\ header.tag = "Ok") =>
        /\ Bytes(file, 14, 4) = Bytes(write_image(<< >>, image), 14, 4)
        /\ header.image_header.size = U32(0, 108)

\* The absolute value of the height field, for a field above -2^31.
AbsHeightField(data) ==
    IF SignedFieldVal(data, 22) < 0 THEN -SignedFieldVal(data, 22)
    ELSE SignedFieldVal(data, 22)

\* The case C9 is about: the input is accepted, its width is positive, and
\* its image_bytes is a multiple of 4, at most 4 * width * |height| and
\* inside the buffer from the pixel-data offset.  (The widths of the model
\* are small; 4 * width * 2^31 is more than any image_bytes.)
C9_Case ==
    /\ pc = "parsed"
    /\ FirstFailedCheck(file) = 0 /\ header.tag = "Ok"
    /\ Len(file) >= FieldVal(file, 2)
    /\ FieldVal(file, 18) > 0
    /\ FieldVal(file, 34) % 4 = 0
    /\ \/ SignedFieldVal(file, 22) = I32_MIN
       \/ FieldVal(file, 34) <= 4 * FieldVal(file, 18) * AbsHeightField(file)
    /\ FieldVal(file, 10) + FieldVal(file, 34) <= Len(file)

\* What C9 says of the result: a width x |height| buffer whose pixel k (at
\* x = k mod width, y = k div width) holds the four bytes at offset + 4k as
\* r, g, b, a, rows in file order, image_bytes bytes consumed.
C9_Placed ==
    /\ result.tag = "Ok"
    /\ result.image.width = AsU32(FieldVal(file, 18))
    /\ result.image.height = IF SignedFieldVal(file, 22) = I32_MIN
                             THEN U32(32768, 0)
                             ELSE AsU32(AbsHeightField(file))
    /\ result.consumed = FieldVal(file, 34)
    /\ \A k \in 0..((FieldVal(file, 34) \div 4) - 1) :
          Image_read(result.image, k % FieldVal(file, 18), k \div FieldVal(file, 18))
              = [r |-> file[FieldVal(file, 10) + 4 * k + 1],
                 g |-> file[FieldVal(file, 10) + 4 * k + 2],
                 b |-> file[FieldVal(file, 10) + 4 * k + 3],
                 a |-> file[FieldVal(file, 10) + 4 * k + 4]]

\* C9: decoder placement.  For an accepted input with width w > 0 whose
\* image_bytes is a multiple of 4, at most 4 * w * |height| and inside the
\* buffer, parse_image returns a w x |height| buffer whose pixel k holds
\* the input bytes at offset + 4k .. + 4k + 3 as r, g, b, a, in file order
\* whatever the sign of the height, and consumes exactly image_bytes bytes.
\* (A machine without the memory for the buffer is not held against it.)
C9_DecoderPlacement == C9_Case => (C9_Placed \/ result = AllocFailure)

\* C10: after the 122-byte header write_image emits one 4-byte group per
\* pixel in row-major order, the bytes at 122 + 4 * (y * w + x) being the
\* alpha, blue, green and red of pixel (x, y), none skipped or repeated.
C10_PixelStream ==
    (pc = "file" /\ edits = 0) =>
        /\ Len(file) = 122 + 4 * W * H
        /\ \A x \in 0..(W - 1), y \in 0..(H - 1) :
              Bytes(file, 122 + 4 * (y * W + x), 4) =
                  << Image_read(image, x, y).a, Image_read(image, x, y).b,
                     Image_read(image, x, y).g, Image_read(image, x, y).r >>

\* C10 witness: a 2 x 2 image whose last pixel was painted (1, 2, 3, 4) is
\* encoded, and the last group of the file is 4, 3, 2, 1.
C10_Witness ==
    /\ pc = "file" /\ edits = 0
    /\ W = 2 /\ H = 2
    /\ Image_read(image, 1, 1) = RGBA_new(1, 2, 3, 4)
    /\ Image_read(image, 0, 1) # RGBA_new(1, 2, 3, 4)
    /\ Bytes(file, 134, 4) = << 4, 3, 2, 1 >>

\* Apart from a height field of -2^31, on which i32::abs overflows, the
\* decoder places the pixels as C9 says.
DecoderPlacementAboveMinHeight ==
    (C9_Case /\ SignedFieldVal(file, 22) # I32_MIN) => C9_Placed

\* Whether every pixel of img has r = a and g = b.
ChannelsPalindromic(img) ==
    \A x \in 0..(Val(img.width) - 1), y \in 0..(Val(img.height) - 1) :
        /\ Image_read(img, x, y).r = Image_read(img, x, y).a
        /\ Image_read(img, x, y).g = Image_read(img, x, y).b

\* C11: encode-then-decode reverses the channels and is an involution.
\* parse_image of write_image's output succeeds with the same width and
\* height and the pixel (a, b, g, r) of the image at every (x, y); a second
\* encode-then-decode returns the image itself; and one pass returns the
\* image exactly when every pixel has r = a and g = b.
C11_ChannelReversingInvolution ==
    /\ (pc = "parsed" /\ edits = 0) =>
          /\ result.tag = "Ok"
          /\ result.image.width = image.width
          /\ result.image.height = image.height
          /\ Len(result.image.data) = Len(image.data)
          /\ \A x \in 0..(W - 1), y \in 0..(H - 1) :
                Image_read(result.image, x, y) =
                    RGBA_new(Image_read(image, x, y).a, Image_read(image, x, y).b,
                             Image_read(image, x, y).g, Image_read(image, x, y).r)
          /\ (result.image = image) <=> ChannelsPalindromic(image)
    /\ pc = "reparsed" =>
          /\ result.tag = "Ok"
          /\ result.image = image

\* C11 witness: a 2 x 2 image with the pixel (1, 2, 3, 4) at (1, 0) and a
\* pixel with r = a, g = b at (0, 1) has gone through encode-then-decode
\* twice and come back.
C11_Witness ==
    /\ pc = "reparsed"
    /\ W = 2 /\ H = 2
    /\ Image_read(image, 1, 0) = RGBA_new(1, 2, 3, 4)
    /\ Image_read(image, 0, 1) = RGBA_new(7, 9, 9, 7)
    /\ result.tag = "Ok"
    /\ result.image = image

====
